---- MODULE Spec2Model ----
(***************************************************************************)
(* Model of src/rep.py (per_power_integer_interval.py): one batch run that *)
(* loads the event records, resolves a duration per event, floors power to *)
(* an integer key, summarises per integer interval, writes the CSV and     *)
(* prints the report.                                                      *)
(*                                                                         *)
(* Representation.                                                         *)
(*  - A cell of the table is a record [t, n, s]: t = "na" (NaN/NA/NaT or a *)
(*    key absent from the JSON record), "none" (Python None in an object   *)
(*    column), "num" (n is the number in thousandths, see Scale) or "str"  *)
(*    (s is the text as a sequence of character codes).                    *)
(*  - Texts are sequences of ASCII codes so that upper(), str(), the       *)
(*    numeric and the timestamp parsers are computed, not tabulated.       *)
(*  - The inputs carry open_time/close_time as texts and the *_ts fields   *)
(*    as numbers, as section 3 of spec.md types them.                      *)
(***************************************************************************)
EXTENDS Integers, Sequences, FiniteSets, TLC

VARIABLES
    pc,          \* position of main(): start, loaded, duration, power, summary, saved, done, raised
    exists,      \* whether FILE_PATH exists (load_json, line 32)
    data,        \* the decoded record sequence of the file
    args,        \* argparse result: power, min_i, max_i (each optional)
    cols,        \* df.columns
    df,          \* the rows of df, each a record over InputFields and power_int
    closed_mask, \* summarize_by_integer's closed_mask (line 81)
    summary,     \* the rows of the summary DataFrame (<<>> = the column-less empty frame)
    csv,         \* what was handed to to_csv
    fastest,     \* the ranking main() builds at line 199
    out,         \* what was printed
    exc          \* the exception that ended the run, or "none"

vars == <<pc, exists, data, args, cols, df, closed_mask, summary, csv, fastest, out, exc>>

-----------------------------------------------------------------------------
(* Cells *)

\* Numbers are fixed-point with three decimals: round(x, 3) at lines 134-137.
Scale == 1000

NA == [t |-> "na", n |-> 0, s |-> <<>>]
None == [t |-> "none", n |-> 0, s |-> <<>>]
Num(x) == [t |-> "num", n |-> x, s |-> <<>>]
Str(cs) == [t |-> "str", n |-> 0, s |-> cs]

\* pandas isna()/notna(): None and NaN are missing, a text or a number is not.
IsNA(v) == v.t \in {"na", "none"}

\* An optional command-line integer (argparse default None).
NoArg == [some |-> FALSE, v |-> 0]
Arg(x) == [some |-> TRUE, v |-> x]

InputFields == {"duration_sec", "open_time", "close_time", "open_ts", "close_ts",
                "open_after_ts", "power", "status", "exit_reason", "gain_pct"}

-----------------------------------------------------------------------------
(* Texts *)

IsDigit(c) == c >= 48 /\ c <= 57

\* str.upper() on ASCII text.
UpperChar(c) == IF c >= 97 /\ c <= 122 THEN c - 32 ELSE c
StrUpperNoop(s) == s
StrUpper(s) == [i \in 1..Len(s) |-> UpperChar(s[i])]

RECURSIVE DigitsOf(_)
DigitsOf(n) == IF n < 10 THEN <<48 + n>> ELSE DigitsOf(n \div 10) \o <<48 + (n % 10)>>

\* str(n) / f"{n}" of a Python int.
IntToStr(n) == IF n < 0 THEN <<45>> \o DigitsOf(-n) ELSE DigitsOf(n)

\* Series.astype(str) on one cell: NaN becomes "nan", None "None", an int its digits.
AsStr(v) ==
    IF v.t = "str" THEN v.s
    ELSE IF v.t = "na" THEN <<110, 97, 110>>
    ELSE IF v.t = "none" THEN <<78, 111, 110, 101>>
    ELSE IntToStr(v.n \div Scale)

RECURSIVE DigitsValue(_)
DigitsValue(s) ==
    IF Len(s) = 0 THEN 0
    ELSE 10 * DigitsValue(SubSeq(s, 1, Len(s) - 1)) + (s[Len(s)] - 48)

AllDigits(s) == Len(s) > 0 /\ \A i \in 1..Len(s) : IsDigit(s[i])

\* pd.to_numeric(errors="coerce") on one cell: a number stays, a text that is a
\* decimal integer literal is parsed, any other text and every missing cell is NaN.
ToNumeric(v) ==
    IF v.t = "num" THEN v
    ELSE IF v.t = "str" /\ AllDigits(v.s) THEN Num(Scale * DigitsValue(v.s))
    ELSE IF v.t = "str" /\ Len(v.s) > 1 /\ v.s[1] = 45 /\ AllDigits(Tail(v.s))
         THEN Num(-(Scale * DigitsValue(Tail(v.s))))
    ELSE NA

\* "1970-01-01T00:00:"
IsoPrefix == <<49, 57, 55, 48, 45, 48, 49, 45, 48, 49, 84, 48, 48, 58, 48, 48, 58>>

\* pd.to_datetime(utc=True, errors="coerce") on one text cell, as seconds since
\* the epoch: the ISO-8601 texts of the first minute of the epoch are parsed
\* digit by digit, every other text of the model's inputs is no timestamp (NaT).
ToDatetime(v) ==
    IF /\ v.t = "str"
       /\ Len(v.s) = Len(IsoPrefix) + 2
       /\ SubSeq(v.s, 1, Len(IsoPrefix)) = IsoPrefix
       /\ AllDigits(SubSeq(v.s, Len(IsoPrefix) + 1, Len(v.s)))
       /\ DigitsValue(SubSeq(v.s, Len(IsoPrefix) + 1, Len(v.s))) < 60
    THEN Num(Scale * DigitsValue(SubSeq(v.s, Len(IsoPrefix) + 1, Len(v.s))))
    ELSE NA

-----------------------------------------------------------------------------
(* compute_duration *)

\* lines 59-61: to_numeric, then negative values become NA.
DropNegativeKeep(v) == v
DropNegative(v) == IF v.t = "num" /\ v.n < 0 THEN NA ELSE v

\* The duration_sec cell of one row after compute_duration, c = df.columns.
ResolveDuration(c, r) ==
    LET d0 == r.duration_sec
        ot == ToDatetime(r.open_time)
        ct == ToDatetime(r.close_time)
        d1 == IF /\ {"open_time", "close_time"} \subseteq c
                 /\ IsNA(d0) /\ ~IsNA(ot) /\ ~IsNA(ct)
              THEN Num(ct.n - ot.n) ELSE d0
        d2 == IF /\ {"open_ts", "close_ts"} \subseteq c
                 /\ IsNA(d1) /\ ~IsNA(r.open_ts) /\ ~IsNA(r.close_ts)
              THEN Num(r.close_ts.n - r.open_ts.n) ELSE d1
        d3 == IF /\ {"open_ts", "open_after_ts"} \subseteq c
                 /\ IsNA(d2) /\ ~IsNA(r.open_ts) /\ ~IsNA(r.open_after_ts)
              THEN Num(r.open_after_ts.n - r.open_ts.n) ELSE d2
    IN  DropNegative(ToNumeric(d3))

-----------------------------------------------------------------------------
(* prepare_power *)

\* np.floor(power).astype("Int64"): the integer n with n <= power < n + 1.
FloorTrunc(v) ==
    IF v.t # "num" THEN NA
    ELSE IF v.n < 0 THEN Num(-((-v.n) \div Scale)) ELSE Num(v.n \div Scale)
Floor(v) == IF v.t = "num" THEN Num(v.n \div Scale) ELSE NA

-----------------------------------------------------------------------------
(* is_closed_series *)

Closed == <<67, 76, 79, 83, 69, 68>>
TP == <<84, 80>>
SL == <<83, 76>>

IsClosed(c, r) ==
    \/ "status" \in c /\ StrUpper(AsStr(r.status)) = Closed
    \/ "exit_reason" \in c /\ ~IsNA(r.exit_reason)

-----------------------------------------------------------------------------
(* summarize_by_integer *)

RECURSIVE SumSeq(_)
SumSeq(s) == IF Len(s) = 0 THEN 0 ELSE s[1] + SumSeq(Tail(s))

\* Python round(): the quotient num/den to the nearest integer, ties to even.
RoundHalfEven(num, den) ==
    LET q == num \div den
        r == num % den
    IN  IF 2 * r < den THEN q
        ELSE IF 2 * r > den THEN q + 1
        ELSE IF q % 2 = 0 THEN q ELSE q + 1

\* The k-th smallest element (1-based) of a non-empty sequence of numbers.
Kth(s, k) ==
    CHOOSE x \in {s[i] : i \in 1..Len(s)} :
        /\ Cardinality({i \in 1..Len(s) : s[i] < x}) < k
        /\ k <= Cardinality({i \in 1..Len(s) : s[i] <= x})

\* Series.mean(), .median(), .min(), .max() followed by round(., 3) (lines 122-137).
Mean(s) == RoundHalfEven(SumSeq(s), Len(s))
Median(s) ==
    IF Len(s) % 2 = 1 THEN Kth(s, (Len(s) + 1) \div 2)
    ELSE RoundHalfEven(Kth(s, Len(s) \div 2) + Kth(s, Len(s) \div 2 + 1), 2)
Min(s) == Kth(s, 1)
Max(s) == Kth(s, Len(s))

\* Series.mean() followed by round(., 6): the result is in millionths.
Mean6(s) == RoundHalfEven(Scale * SumSeq(s), Len(s))

\* The numbers (thousandths) of the cells of column f that to_numeric keeps.
NumericOf(rows, f) ==
    LET kept == SelectSeq(rows, LAMBDA r : ToNumeric(r[f]).t = "num")
    IN  [i \in 1..Len(kept) |-> ToNumeric(kept[i][f]).n]

\* line 83: the rows whose power_int is not null.
ValidRows(rows) == SelectSeq(rows, LAMBDA r : ~IsNA(r.power_int))

\* lines 101, 109: the group of key n, and the rows the statistics are taken over.
GroupOf(valid, n) == SelectSeq(valid, LAMBDA r : r.power_int.n = n)
StatRowsAll(c, group) == group
StatRows(c, group) == SelectSeq(group, LAMBDA r : IsClosed(c, r))

\* lines 111-114: the closed rows whose exit_reason is `what`, ignoring case.
CountExitExact(c, closed_df, what) ==
    IF "exit_reason" \in c
    THEN Len(SelectSeq(closed_df, LAMBDA r : AsStr(r.exit_reason) = what))
    ELSE 0
CountExit(c, closed_df, what) ==
    IF "exit_reason" \in c
    THEN Len(SelectSeq(closed_df, LAMBDA r : StrUpper(AsStr(r.exit_reason)) = what))
    ELSE 0

\* lines 116-117: avg_gain_pct over the closed rows (millionths), None when the
\* column is absent or holds no value, NaN when it holds only non-numeric values.
AvgGain(c, closed_df) ==
    IF "gain_pct" \in c /\ \E i \in 1..Len(closed_df) : ~IsNA(closed_df[i].gain_pct)
    THEN IF Len(NumericOf(closed_df, "gain_pct")) > 0
         THEN Num(Mean6(NumericOf(closed_df, "gain_pct")))
         ELSE NA
    ELSE None

\* f"{n}-{n+1}" (line 128).
RangeLabel(n) == IntToStr(n) \o <<45>> \o IntToStr(n + 1)

\* lines 100-138: the row of key n.
GroupRow(c, valid, n) ==
    LET group == GroupOf(valid, n)
        closed_df == StatRows(c, group)
        closed == Len(SelectSeq(group, LAMBDA r : IsClosed(c, r)))
        ds == IF "duration_sec" \in c THEN NumericOf(closed_df, "duration_sec") ELSE <<>>
        has == closed > 0 /\ Len(ds) > 0
    IN  [ power_int |-> n,
          range |-> RangeLabel(n),
          total_trades |-> Len(group),
          closed_trades |-> closed,
          tp_count |-> IF closed > 0 THEN CountExit(c, closed_df, TP) ELSE 0,
          sl_count |-> IF closed > 0 THEN CountExit(c, closed_df, SL) ELSE 0,
          avg_gain_pct |-> IF closed > 0 THEN AvgGain(c, closed_df) ELSE None,
          avg_duration_sec |-> IF has THEN Num(Mean(ds)) ELSE None,
          median_duration_sec |-> IF has THEN Num(Median(ds)) ELSE None,
          min_duration_sec |-> IF has THEN Num(Min(ds)) ELSE None,
          max_duration_sec |-> IF has THEN Num(Max(ds)) ELSE None ]

StatCols == {"avg_gain_pct", "avg_duration_sec", "median_duration_sec",
             "min_duration_sec", "max_duration_sec"}

\* pd.DataFrame(rows) (line 139): a column of None only stays an object column of
\* None; as soon as one row holds a float the column is float64 and None is NaN.
\* No rows give the frame without columns.
ToFrame(rows) ==
    LET allNone(f) == \A i \in 1..Len(rows) : rows[i][f].t = "none"
        cell(r, f) == IF r[f].t = "none" /\ ~allNone(f) THEN NA ELSE r[f]
    IN  [i \in 1..Len(rows) |->
            [f \in DOMAIN rows[i] |-> IF f \in StatCols THEN cell(rows[i], f) ELSE rows[i][f]]]

\* lines 88-97: the emitted keys, lowest first.
Lower(a, keys) == IF a.some THEN a.v ELSE CHOOSE m \in keys : \A k \in keys : m <= k
Upper(a, keys) == IF a.some THEN a.v ELSE CHOOSE m \in keys : \A k \in keys : m >= k
IntRangeTo(lo, hi) == [i \in 1..(hi - lo) |-> lo + i - 1]
IntRange(lo, hi) == [i \in 1..(hi - lo + 1) |-> lo + i - 1]

\* summarize_by_integer(df, min_int, max_int).
SummarizeByInteger(c, rows, min_int, max_int) ==
    LET valid == ValidRows(rows)
        keys == {valid[i].power_int.n : i \in 1..Len(valid)}
        int_range == IntRange(Lower(min_int, keys), Upper(max_int, keys))
    IN  IF Len(valid) = 0 THEN <<>>
        ELSE ToFrame([i \in 1..Len(int_range) |-> GroupRow(c, valid, int_range[i])])

-----------------------------------------------------------------------------
(* human, and the report of main *)

\* human(sec) raises ValueError on NaN (int(nan // 60)); None gives "".
HumanRaises(v) == v.t = "na"
\* The numbers of f"{s:.2f}s ({m}m{ss}s)": s in hundredths, m, ss; <<>> is "".
Human(v) ==
    IF v.t # "num" THEN <<>>
    ELSE <<RoundHalfEven(v.n, 10), (v.n \div Scale) \div 60, (v.n \div Scale) % 60>>

\* head(20) at line 199.
HeadN == 20

\* sort_values orders missing averages last.
AvgLeq(a, b) == IF IsNA(b) THEN TRUE ELSE IF IsNA(a) THEN FALSE ELSE a.n <= b.n

\* summary[summary["closed_trades"] > 0].sort_values("avg_duration_sec"): the
\* default kind is quicksort, which is not stable, so rows of equal average
\* come in any order; the missing averages follow in their original order.
SortOrders(rows) ==
    LET cand == {i \in 1..Len(rows) : rows[i].closed_trades > 0}
        k == Cardinality(cand)
    IN  {f \in [1..k -> cand] :
            /\ \A i, j \in 1..k : i # j => f[i] # f[j]
            /\ \A i \in 1..k : \A j \in 1..k : i < j =>
                 /\ AvgLeq(rows[f[i]].avg_duration_sec, rows[f[j]].avg_duration_sec)
                 /\ IsNA(rows[f[i]].avg_duration_sec) => f[i] < f[j]}

HeadRows(s, n) == IF Len(s) <= n THEN s ELSE SubSeq(s, 1, n)

Line(kind, key, h) == [kind |-> kind, key |-> key, human |-> h]

\* The stats block of lines 186-195 for row r: the lines printed, and whether a
\* call of human raised.
DurCols == <<"avg_duration_sec", "median_duration_sec", "min_duration_sec", "max_duration_sec">>
StatsBad(r) == {i \in 1..4 : HumanRaises(r[DurCols[i]])}
StatsLines(r) ==
    LET first == IF StatsBad(r) = {} THEN 5
                 ELSE CHOOSE i \in StatsBad(r) : \A j \in StatsBad(r) : i <= j
    IN  <<Line("stats", r.power_int, <<>>)>> \o
        [i \in 1..(first - 1) |-> Line(DurCols[i], r.power_int, Human(r[DurCols[i]]))]

\* The loop of lines 202-203 over the ranking: the lines printed before a call
\* of human raises, if one does.
RankBad(rk) == {i \in 1..Len(rk) : HumanRaises(rk[i].avg_duration_sec)}
RankLines(rk) ==
    LET first == IF RankBad(rk) = {} THEN Len(rk) + 1
                 ELSE CHOOSE i \in RankBad(rk) : \A j \in RankBad(rk) : i <= j
    IN  <<Line("fastest", 0, <<>>)>> \o
        [i \in 1..(first - 1) |-> Line("rank", rk[i].power_int, Human(rk[i].avg_duration_sec))]

-----------------------------------------------------------------------------
(* main *)

Row(e) ==
    [ duration_sec |-> e.duration_sec, open_time |-> e.open_time,
      close_time |-> e.close_time, open_ts |-> e.open_ts, close_ts |-> e.close_ts,
      open_after_ts |-> e.open_after_ts, power |-> e.power, status |-> e.status,
      exit_reason |-> e.exit_reason, gain_pct |-> e.gain_pct, power_int |-> NA ]

\* pd.DataFrame(data): the columns are the keys some record carries.
FrameCols(d) == {f \in InputFields : \E i \in 1..Len(d) : d[i][f].t # "na"}

\* lines 158-164: load_json, then the DataFrame; a missing file is printed and
\* the run returns.
Load ==
    /\ pc = "start"
    /\ IF exists
       THEN /\ cols' = FrameCols(data)
            /\ df' = [i \in 1..Len(data) |-> Row(data[i])]
            /\ pc' = "loaded"
            /\ out' = out
       ELSE /\ out' = Append(out, Line("FileNotFound", 0, <<>>))
            /\ pc' = "done"
            /\ UNCHANGED <<cols, df>>
    /\ UNCHANGED <<exists, data, args, closed_mask, summary, csv, fastest, exc>>

\* line 165: df = compute_duration(df).
ComputeDuration ==
    /\ pc = "loaded"
    /\ cols' = cols \cup {"duration_sec"}
    /\ df' = [i \in 1..Len(df) |-> [df[i] EXCEPT !.duration_sec = ResolveDuration(cols, df[i])]]
    /\ pc' = "duration"
    /\ UNCHANGED <<exists, data, args, closed_mask, summary, csv, fastest, out, exc>>

\* line 166: df = prepare_power(df).
PreparePower ==
    /\ pc = "duration"
    /\ cols' = cols \cup {"power", "power_int"}
    /\ df' = [i \in 1..Len(df) |->
                [df[i] EXCEPT !.power = ToNumeric(df[i].power),
                              !.power_int = Floor(ToNumeric(df[i].power))]]
    /\ pc' = "power"
    /\ UNCHANGED <<exists, data, args, closed_mask, summary, csv, fastest, out, exc>>

\* lines 168-170: summary = summarize_by_integer(df, min_i, max_i).
Summarize ==
    /\ pc = "power"
    /\ closed_mask' = [i \in 1..Len(df) |-> IsClosed(cols, df[i])]
    /\ summary' = SummarizeByInteger(cols, df, args.min_i, args.max_i)
    /\ pc' = "summary"
    /\ UNCHANGED <<exists, data, args, cols, df, csv, fastest, out, exc>>

\* lines 172-176: the summary is handed to to_csv and the path is printed.
SaveCsv ==
    /\ pc = "summary"
    /\ csv' = [written |-> TRUE, rows |-> summary]
    /\ out' = Append(out, Line("saved", 0, <<>>))
    /\ pc' = "saved"
    /\ UNCHANGED <<exists, data, args, cols, df, closed_mask, summary, fastest, exc>>

\* lines 179-207: the single-interval stats, or the ranking of the fastest intervals.
Report ==
    /\ pc = "saved"
    /\ \E order \in SortOrders(summary) :
        IF args.power.some
        THEN /\ fastest' = fastest
             /\ IF summary = <<>>
                THEN \* summary["power_int"] on the frame without columns
                     /\ exc' = "KeyError" /\ pc' = "raised" /\ out' = out
                ELSE LET hit == SelectSeq(summary, LAMBDA r : r.power_int = args.power.v)
                     IN  IF Len(hit) = 0
                         THEN /\ out' = Append(out, Line("no_data_for_interval", args.power.v, <<>>))
                              /\ exc' = exc /\ pc' = "done"
                         ELSE /\ out' = out \o StatsLines(hit[1])
                              /\ exc' = IF StatsBad(hit[1]) = {} THEN exc ELSE "ValueError"
                              /\ pc' = IF StatsBad(hit[1]) = {} THEN "done" ELSE "raised"
        ELSE IF summary # <<>>
             THEN LET rk == HeadRows([i \in 1..Len(order) |-> summary[order[i]]], HeadN)
                  IN  /\ fastest' = rk
                      /\ IF Len(rk) > 0
                         THEN /\ out' = out \o RankLines(rk)
                              /\ exc' = IF RankBad(rk) = {} THEN exc ELSE "ValueError"
                              /\ pc' = IF RankBad(rk) = {} THEN "done" ELSE "raised"
                         ELSE /\ out' = Append(out, Line("no_closed_interval", 0, <<>>))
                              /\ exc' = exc /\ pc' = "done"
             ELSE /\ out' = Append(out, Line("summary_empty", 0, <<>>))
                  /\ fastest' = fastest /\ exc' = exc /\ pc' = "done"
    /\ UNCHANGED <<exists, data, args, cols, df, closed_mask, summary, csv>>

Next == Load \/ ComputeDuration \/ PreparePower \/ Summarize \/ SaveCsv \/ Report

-----------------------------------------------------------------------------
(* Inputs *)

SeqsUpTo(S, n) == UNION {[1..k -> S] : k \in 0..n}

InitWith(Events, n, Args) ==
    /\ pc = "start"
    /\ exists \in BOOLEAN
    /\ data \in SeqsUpTo(Events, n)
    /\ args \in Args
    /\ exists = FALSE => data = <<>>
    /\ cols = {}
    /\ df = <<>>
    /\ closed_mask = <<>>
    /\ summary = <<>>
    /\ csv = [written |-> FALSE, rows |-> <<>>]
    /\ fastest = <<>>
    /\ out = <<>>
    /\ exc = "none"

NoArgs == [power |-> NoArg, min_i |-> NoArg, max_i |-> NoArg]

\* Texts of the inputs.
TxtClosedMixed == <<67, 108, 111, 115, 101, 100>>   \* "Closed"
TxtOpen == <<79, 80, 69, 78>>                       \* "OPEN"
TxtTpMixed == <<84, 112>>                           \* "Tp"
TxtSlLower == <<115, 108>>                          \* "sl"
TxtTimeout == <<84, 73, 77, 69, 79, 85, 84>>        \* "TIMEOUT"
TxtAbc == <<97, 98, 99>>                            \* "abc"
TxtT10 == IsoPrefix \o <<49, 48>>                   \* "1970-01-01T00:00:10"
TxtT40 == IsoPrefix \o <<52, 48>>                   \* "1970-01-01T00:00:40"

P609 == Num(60900)
P610 == Num(61000)

\* An event that only carries the given fields.
Blank == [f \in InputFields |-> NA]

\* Bounds on the number of records of the file, per family of inputs.
MaxEvents == 2
MaxEventsDur == 2
MaxEventsStats == 3

\* Power grouping and range options: power and exit_reason vary.
EventsPower ==
    {[Blank EXCEPT !.power = p, !.exit_reason = x] :
        p \in {NA, Str(TxtAbc), Num(-500), P609, P610}, x \in {NA, Str(TP)}}
ArgsPower ==
    [power : {NoArg, Arg(60)}, min_i : {NoArg, Arg(59), Arg(61)}, max_i : {NoArg, Arg(61)}]

\* Closed-state classification: status and exit_reason vary.
EventsClosed ==
    {[Blank EXCEPT !.power = p, !.status = s, !.exit_reason = x] :
        p \in {P609, P610},
        s \in {NA, Str(TxtClosedMixed), Str(TxtOpen)},
        x \in {NA, Str(TxtTpMixed), Str(TxtSlLower), Str(TxtTimeout)}}
ArgsClosed == [power : {NoArg, Arg(60)}, min_i : {NoArg}, max_i : {NoArg}]

\* Duration resolution: the duration and timestamp fields vary.
EventsDur ==
    {[Blank EXCEPT !.power = P609, !.exit_reason = Str(TP), !.duration_sec = d,
                   !.open_time = t[1], !.close_time = t[2],
                   !.open_ts = u[1], !.close_ts = u[2], !.open_after_ts = u[3]] :
        d \in {NA, Str(TxtAbc), Num(-5000), Num(7000)},
        t \in {<<NA, NA>>, <<Str(TxtT10), Str(TxtT40)>>, <<Str(TxtAbc), Str(TxtT40)>>},
        u \in {<<NA, NA, NA>>, <<Num(100000), Num(150000), NA>>,
               <<Num(100000), Num(90000), Num(101000)>>, <<Num(100000), NA, Num(101000)>>}}
ArgsDur == {NoArgs}

\* Statistics and ranking: closedness, gain and duration vary over two intervals.
EventsStats ==
    {[Blank EXCEPT !.power = p, !.exit_reason = x, !.duration_sec = dg[1], !.gain_pct = dg[2]] :
        p \in {P609, P610}, x \in {NA, Str(TP)},
        dg \in {<<NA, NA>>, <<Num(7000), Num(4000)>>, <<Num(10000), Num(1000)>>,
                <<Num(10000), Str(TxtAbc)>>}}
ArgsStats == [power : {NoArg, Arg(61)}, min_i : {NoArg}, max_i : {NoArg}]

Init == InitWith(EventsPower, MaxEvents, ArgsPower)
InitClosed == InitWith(EventsClosed, MaxEvents, ArgsClosed)
InitDur == InitWith(EventsDur, MaxEventsDur, ArgsDur)
InitStats == InitWith(EventsStats, MaxEventsStats, ArgsStats)

Spec == Init /\ [][Next]_vars
SpecClosed == InitClosed /\ [][Next]_vars
SpecDur == InitDur /\ [][Next]_vars
SpecStats == InitStats /\ [][Next]_vars

-----------------------------------------------------------------------------
(* Properties *)

Resolved == exists /\ pc \notin {"start", "loaded"}
Summarized == pc \in {"summary", "saved", "done", "raised"}
Ended == pc \in {"done", "raised"}

\* Text equality ignoring case, against an upper-case word.
EqIgnoreCase(s, word) ==
    /\ Len(s) = Len(word)
    /\ \A i \in 1..Len(s) : s[i] = word[i] \/ s[i] = word[i] + 32

\* Section 4.3: closed = status is CLOSED (any case) or exit_reason is present.
ClaimClosed(e) ==
    \/ e.status.t = "str" /\ EqIgnoreCase(e.status.s, Closed)
    \/ e.exit_reason.t # "na"

ExitIs(e, word) == e.exit_reason.t = "str" /\ EqIgnoreCase(e.exit_reason.s, word)

HasNumericPower(i) == ToNumeric(data[i].power).t = "num"
PowerOf(i) == ToNumeric(data[i].power).n

\* The events whose power p satisfies n <= p < n + 1.
InInterval(n) ==
    {i \in 1..Len(data) : HasNumericPower(i) /\ n * Scale <= PowerOf(i) /\ PowerOf(i) < (n + 1) * Scale}

RECURSIVE SumOver(_, _)
SumOver(S, f) ==
    IF S = {} THEN 0
    ELSE LET x == CHOOSE y \in S : TRUE IN f[x] + SumOver(S \ {x}, f)

Abs(x) == IF x < 0 THEN -x ELSE x

\* Section 4.1 as the claim reads it: the first of duration_sec (present and
\* numeric), close_time - open_time, close_ts - open_ts, open_after_ts - open_ts
\* that applies, a negative result being missing.
ClaimDuration(e) ==
    LET v == IF ToNumeric(e.duration_sec).t = "num" THEN ToNumeric(e.duration_sec)
             ELSE IF ToDatetime(e.open_time).t = "num" /\ ToDatetime(e.close_time).t = "num"
                  THEN Num(ToDatetime(e.close_time).n - ToDatetime(e.open_time).n)
             ELSE IF e.open_ts.t = "num" /\ e.close_ts.t = "num"
                  THEN Num(e.close_ts.n - e.open_ts.n)
             ELSE IF e.open_ts.t = "num" /\ e.open_after_ts.t = "num"
                  THEN Num(e.open_after_ts.n - e.open_ts.n)
             ELSE NA
    IN  IF v.t = "num" /\ v.n < 0 THEN NA ELSE v

\* C1: every event's resolved duration is the first applicable of duration_sec
\* (if present and numeric), close_time - open_time, close_ts - open_ts,
\* open_after_ts - open_ts; in particular a non-numeric duration_sec falls
\* through to the timestamp differences.
C1_DurationPriority ==
    Resolved => \A i \in 1..Len(data) : df[i].duration_sec = ClaimDuration(data[i])

\* C2: is_closed_series is true for an event exactly when its status is CLOSED
\* in any case or its exit_reason is present; with both absent it is false and
\* nothing is raised.
C2_ClosedIff ==
    pc = "summary" =>
        /\ exc = "none"
        /\ Len(closed_mask) = Len(data)
        /\ \A i \in 1..Len(data) : closed_mask[i] <=> ClaimClosed(data[i])

C2_Witness ==
    /\ pc = "summary"
    /\ \E i, j \in 1..Len(data) :
        /\ data[i].status = Str(TxtClosedMixed) /\ data[i].exit_reason = NA /\ closed_mask[i]
        /\ data[j].status = NA /\ data[j].exit_reason = NA /\ ~closed_mask[j]

DurStat(r) == {r.avg_duration_sec, r.median_duration_sec, r.min_duration_sec, r.max_duration_sec}

\* The non-negative resolved durations of the events of interval n.
NonNegDurations(n) ==
    {df[i].duration_sec.n : i \in {j \in InInterval(n) :
        df[j].duration_sec.t = "num" /\ df[j].duration_sec.n >= 0}}

\* C3: a negative duration, supplied or obtained from a timestamp difference,
\* is missing after compute_duration, and every duration statistic of every
\* row is missing or a value >= 0 taken from non-negative resolved durations.
C3_NoNegativeDuration ==
    /\ Resolved => \A i \in 1..Len(data) :
          /\ df[i].duration_sec.t = "na" \/ (df[i].duration_sec.t = "num" /\ df[i].duration_sec.n >= 0)
          /\ (ToNumeric(data[i].duration_sec).t = "num" /\ ToNumeric(data[i].duration_sec).n < 0)
                => df[i].duration_sec = NA
          /\ (ClaimDuration(data[i]) = NA) => df[i].duration_sec = NA
    /\ Summarized => \A k \in 1..Len(summary) :
          /\ \A v \in DurStat(summary[k]) : IsNA(v) \/ (v.t = "num" /\ v.n >= 0)
          /\ \A v \in {summary[k].min_duration_sec, summary[k].max_duration_sec} :
                v.t = "num" => v.n \in NonNegDurations(summary[k].power_int)

C3_Witness ==
    /\ Summarized
    /\ \E i, j \in 1..Len(data) :
        /\ data[i].duration_sec = Num(-5000) /\ df[i].duration_sec = NA
        /\ data[j].duration_sec = NA /\ data[j].open_time = NA
        /\ data[j].open_ts = Num(100000) /\ data[j].close_ts = Num(90000)
        /\ df[j].duration_sec = NA
    /\ \E k \in 1..Len(summary) :
        summary[k].closed_trades = 2 /\ summary[k].avg_duration_sec = None

\* The rows of the summary that cover the power of event i.
RowsCounting(i) ==
    {k \in 1..Len(summary) :
        /\ summary[k].power_int * Scale <= PowerOf(i)
        /\ PowerOf(i) < (summary[k].power_int + 1) * Scale
        /\ summary[k].total_trades > 0}

\* Every row counts the events of its interval and carries the label "n-(n+1)".
RowsCountIntervals ==
    \A k \in 1..Len(summary) :
        /\ summary[k].total_trades = Cardinality(InInterval(summary[k].power_int))
        /\ summary[k].range = IntToStr(summary[k].power_int) \o <<45>> \o IntToStr(summary[k].power_int + 1)
        /\ summary[k].power_int = 60 => summary[k].range = <<54, 48, 45, 54, 49>>
        /\ summary[k].power_int = 61 => summary[k].range = <<54, 49, 45, 54, 50>>
        /\ \A j \in 1..Len(summary) : summary[j].power_int = summary[k].power_int => j = k

\* The power of event i lies within the --min / --max options that were given.
WithinOptions(i) ==
    /\ args.min_i.some => args.min_i.v * Scale <= PowerOf(i)
    /\ args.max_i.some => PowerOf(i) < (args.max_i.v + 1) * Scale

\* C4 (as stated): every event with a numeric power p is counted in exactly
\* one group, the one with n <= p < n + 1, labelled "n-(n+1)"; an event with
\* absent or non-numeric power has a missing key and is counted in no group.
C4_ExactlyOneGroup ==
    Summarized =>
        /\ RowsCountIntervals
        /\ \A i \in 1..Len(data) :
            IF HasNumericPower(i)
            THEN Cardinality(RowsCounting(i)) = 1
            ELSE df[i].power_int = NA

\* C4 (amended): every event with a numeric power p that lies within the
\* --min / --max options is counted in exactly one group, the one with
\* n <= p < n + 1, labelled "n-(n+1)"; one outside the options, and one with
\* absent or non-numeric power (whose key is missing), is counted in no group.
C4_OneGroupWithinOptions ==
    Summarized =>
        /\ RowsCountIntervals
        /\ \A i \in 1..Len(data) :
            IF HasNumericPower(i)
            THEN /\ df[i].power_int.t = "num"
                 /\ df[i].power_int.n * Scale <= PowerOf(i)
                 /\ PowerOf(i) < (df[i].power_int.n + 1) * Scale
                 /\ Cardinality(RowsCounting(i)) = IF WithinOptions(i) THEN 1 ELSE 0
            ELSE df[i].power_int = NA

C4_Witness ==
    /\ Summarized
    /\ \E i, j \in 1..Len(data) :
        /\ data[i].power = P609 /\ data[j].power = Num(-500)
        /\ \E k \in RowsCounting(i) : summary[k].power_int = 60 /\ summary[k].range = <<54, 48, 45, 54, 49>>
        /\ \E k \in RowsCounting(j) : summary[k].power_int = -1

\* C5: in every row tp_count + sl_count <= closed_trades <= total_trades,
\* tp_count / sl_count count the closed events of the group whose exit_reason
\* is TP / SL in any case, and both are 0 when no record has exit_reason.
C5_TpSlWithinClosed ==
    Summarized => \A k \in 1..Len(summary) :
        LET r == summary[k]
            closedIn == {i \in InInterval(r.power_int) : ClaimClosed(data[i])}
        IN  /\ r.tp_count + r.sl_count <= r.closed_trades
            /\ r.closed_trades <= r.total_trades
            /\ r.closed_trades = Cardinality(closedIn)
            /\ r.tp_count = Cardinality({i \in closedIn : ExitIs(data[i], TP)})
            /\ r.sl_count = Cardinality({i \in closedIn : ExitIs(data[i], SL)})
            /\ "exit_reason" \notin cols => r.tp_count = 0 /\ r.sl_count = 0

C5_Witness ==
    /\ Summarized
    /\ \E k \in 1..Len(summary) :
        /\ summary[k].tp_count = 1
        /\ summary[k].closed_trades = 2
        /\ summary[k].sl_count = 0
        /\ \E i \in InInterval(summary[k].power_int) : data[i].exit_reason = Str(TxtTpMixed)

NoDataLines == {"summary_empty", "no_data_for_interval"}

\* C6: an empty input collection gives the empty summary and a "no data"
\* line without an exception, whatever --power / --min / --max are.
C6_EmptyInputNoData ==
    (exists /\ data = <<>> /\ Ended) =>
        /\ exc = "none"
        /\ summary = <<>>
        /\ \E i \in 1..Len(out) : out[i].kind \in NoDataLines

\* The closed events of interval n with a value in column f after the pipeline.
Qualifying(n, f) ==
    {i \in InInterval(n) : ClaimClosed(data[i]) /\ ToNumeric(df[i][f]).t = "num"}

ValuesOf(S, f) == [i \in S |-> ToNumeric(df[i][f]).n]

\* v is the mean of the values w (scaled by `unit`), to the nearest unit.
IsMeanOf(v, w, unit) ==
    2 * Abs(v * Cardinality(DOMAIN w) - unit * SumOver(DOMAIN w, w)) <= Cardinality(DOMAIN w)

\* v is a median of w: at least half of the values lie on either side of it.
IsMedianOf(v, w) ==
    /\ 2 * Cardinality({i \in DOMAIN w : w[i] <= v}) >= Cardinality(DOMAIN w)
    /\ 2 * Cardinality({i \in DOMAIN w : w[i] >= v}) >= Cardinality(DOMAIN w)

\* C7: in every row avg_gain_pct and the four duration statistics are taken
\* over the closed events of the group that have a value for the field, and
\* are missing (never 0) when there is no such event.
C7_StatsOverClosed ==
    Summarized => \A k \in 1..Len(summary) :
        LET r == summary[k]
            qd == Qualifying(r.power_int, "duration_sec")
            qg == Qualifying(r.power_int, "gain_pct")
            wd == ValuesOf(qd, "duration_sec")
            wg == ValuesOf(qg, "gain_pct")
        IN  /\ IF qd = {}
               THEN \A v \in DurStat(r) : IsNA(v)
               ELSE /\ \A v \in DurStat(r) : v.t = "num"
                    /\ IsMeanOf(r.avg_duration_sec.n, wd, 1)
                    /\ IsMedianOf(r.median_duration_sec.n, wd)
                    /\ \E i \in qd : wd[i] = r.min_duration_sec.n
                    /\ \A i \in qd : wd[i] >= r.min_duration_sec.n
                    /\ \E i \in qd : wd[i] = r.max_duration_sec.n
                    /\ \A i \in qd : wd[i] <= r.max_duration_sec.n
            /\ IF qg = {}
               THEN IsNA(r.avg_gain_pct)
               ELSE r.avg_gain_pct.t = "num" /\ IsMeanOf(r.avg_gain_pct.n, wg, Scale)

C7_Witness ==
    /\ Summarized
    /\ \E k, m \in 1..Len(summary) :
        /\ summary[k].total_trades = 2 /\ summary[k].closed_trades = 1
        /\ summary[k].avg_duration_sec = Num(7000)
        /\ summary[k].avg_gain_pct = Num(4000000)
        /\ \E i \in InInterval(summary[k].power_int) :
              ~ClaimClosed(data[i]) /\ data[i].duration_sec = Num(10000)
        /\ summary[m].total_trades = 1 /\ summary[m].closed_trades = 0
        /\ \E i \in InInterval(summary[m].power_int) : data[i].duration_sec = Num(10000)
        /\ summary[m].avg_duration_sec.t = "na" /\ summary[m].avg_gain_pct.t = "na"

\* C8: the fastest-groups ranking holds only groups with a closed trade, in
\* ascending average duration, groups of equal average in ascending key order.
C8_FastestRanking ==
    (Ended /\ exists /\ ~args.power.some) =>
        /\ \A j \in 1..Len(fastest) : fastest[j].closed_trades > 0
        /\ \A j, k \in 1..Len(fastest) : j < k =>
            /\ AvgLeq(fastest[j].avg_duration_sec, fastest[k].avg_duration_sec)
            /\ fastest[j].avg_duration_sec = fastest[k].avg_duration_sec
                  => fastest[j].power_int < fastest[k].power_int

\* C9: once the file is loaded no record content aborts the run: it ends
\* without an exception, having handed the summary to the CSV and printed
\* the report.
C9_NoRecordAborts ==
    (exists /\ Len(data) > 0) => (exc = "none" /\ pc # "raised" /\ (pc = "done" => csv.written))

\* The keys of the events with numeric power.
DataKeys == {df[i].power_int.n : i \in {j \in 1..Len(df) : df[j].power_int.t = "num"}}
LowKey == IF args.min_i.some THEN args.min_i.v ELSE CHOOSE m \in DataKeys : \A x \in DataKeys : m <= x
HighKey == IF args.max_i.some THEN args.max_i.v ELSE CHOOSE m \in DataKeys : \A x \in DataKeys : m >= x
TotalOf == [k \in 1..Len(summary) |-> summary[k].total_trades]

\* C10: when some event has a numeric power there is exactly one row per
\* integer from the lower to the upper bound (the option, else the lowest /
\* highest floor(power) of the data), in ascending order; an integer without
\* events has total_trades = 0, events outside the range are in no row, and
\* with default bounds the totals sum to the number of events with numeric power.
C10_OneRowPerInteger ==
    (Summarized /\ DataKeys # {}) =>
        /\ Len(summary) = IF HighKey >= LowKey THEN HighKey - LowKey + 1 ELSE 0
        /\ \A k \in 1..Len(summary) :
            /\ summary[k].power_int = LowKey + k - 1
            /\ summary[k].total_trades =
                  Cardinality({i \in 1..Len(df) : df[i].power_int = Num(summary[k].power_int)})
        /\ SumOver(1..Len(summary), TotalOf) =
              Cardinality({i \in 1..Len(df) : /\ df[i].power_int.t = "num"
                                               /\ LowKey <= df[i].power_int.n
                                               /\ df[i].power_int.n <= HighKey})
        /\ (~args.min_i.some /\ ~args.max_i.some) =>
              SumOver(1..Len(summary), TotalOf) =
                  Cardinality({i \in 1..Len(data) : HasNumericPower(i)})

C10_Witness ==
    /\ Summarized
    /\ ~args.min_i.some /\ args.max_i = Arg(61)
    /\ Len(summary) = 63
    /\ summary[1].power_int = -1 /\ summary[1].total_trades = 1
    /\ summary[2].total_trades = 0
    /\ summary[62].power_int = 60 /\ summary[62].total_trades = 1
    /\ summary[63].power_int = 61 /\ summary[63].total_trades = 0

====
